---------------------------- MODULE Spec2Model ----------------------------
(***************************************************************************)
(* Model of the seeq operators: the coupled-transmon Hamiltonian           *)
(* (seeq/models/cqed.py, class Transmons), the regular lattice builder     *)
(* (seeq/models/lattice.py, class Regular3DLattice, Lattice1D and          *)
(* SquareLattice) and the eigensolver wrappers (seeq/tools.py).            *)
(*                                                                         *)
(* Numbers.  Python indexes from 0, so arrays are functions over 0..n-1.   *)
(* The code computes in float64; the model computes exactly.  Ec, EJ, ng,  *)
(* the charge operators N and the states psi take integer values.  The    *)
(* quantities that can be half-integers (the coupling g, the lifted        *)
(* (Sup+Sdo)/2 operators HJJ, Hcap, hamiltonian() and apply()) are kept as *)
(* numerators over the common denominator Den: the real r is the integer   *)
(* Den * r.  A product is always (integer) * (numerator), a sum is always  *)
(* of numerators.  The weights J of a lattice's hopping rule are integers. *)
(***************************************************************************)
EXTENDS Integers, Sequences, FiniteSets, TLC

VARIABLES
    heap,   \* Python's object store: address -> array, matrix or list
    objs,   \* the live Transmons instances: <<t>> or <<t, u>>, u a tuned copy
    hist,   \* history, one record per instance (what it was built from)
    out,    \* the value returned by the last hamiltonian() / apply() call
    poked,  \* the last in-place write a client made through an instance
    lat     \* the result of the last Regular3DLattice(...) construction

vars == <<heap, objs, hist, out, poked, lat>>

-----------------------------------------------------------------------------
(* Bounds of the model *)

MaxQubits == 2      \* nqubits ranges over 1..MaxQubits
MaxCutoff == 1      \* nmax ranges over 0..MaxCutoff
MaxDim == 9         \* (2*nmax+1)^nqubits is at most MaxDim
MaxPokes == 1       \* in-place client writes per behaviour
MaxL == 2           \* each lattice extent Lx, Ly, Lz ranges over 1..MaxL
MaxSites == 8       \* Lx * Ly * Lz is at most MaxSites
MaxHops == 2        \* a hopping rule returns at most MaxHops pairs per site
MaxChain == 4       \* the length L of a Lattice1D ranges over 1..MaxChain
MaxSide == 3        \* Lx and Ly of a SquareLattice range over 1..MaxSide
MaxEig == 4         \* an operator handed to the eigensolver has 2..MaxEig eigenvalues
MaxArg == 3         \* a parameter array handed to Transmons has 0..MaxArg entries
MaxRhombus == 2     \* the length L of a RhombusLattice ranges over 0..MaxRhombus

Den == 2

-----------------------------------------------------------------------------
(* Dense integer linear algebra, 0-based *)

Range(n) == 0 .. (n - 1)

RECURSIVE Pow(_, _)
Pow(b, e) == IF e = 0 THEN 1 ELSE b * Pow(b, e - 1)

RECURSIVE SumFn(_, _)
\* f[0] + ... + f[n-1]
SumFn(f, n) == IF n = 0 THEN 0 ELSE SumFn(f, n - 1) + f[n - 1]

\* The identity.  TLC builds [x \in S |-> e] lazily and would evaluate e again
\* at every use; comparing the value makes it compute every entry once.
Evaluated(M) == IF M = M THEN M ELSE M

Rows(A) == Cardinality(DOMAIN A)
Cols(A) == Cardinality(DOMAIN A[0])

Zeros(r, c) == [i \in Range(r) |-> [j \in Range(c) |-> 0]]
eye(n) == [i \in Range(n) |-> [j \in Range(n) |-> IF i = j THEN 1 ELSE 0]]

MatAdd(A, B) ==
    Evaluated([i \in DOMAIN A |-> [j \in DOMAIN A[i] |-> A[i][j] + B[i][j]]])
MatSub(A, B) ==
    Evaluated([i \in DOMAIN A |-> [j \in DOMAIN A[i] |-> A[i][j] - B[i][j]]])
MatScale(s, A) ==
    Evaluated([i \in DOMAIN A |-> [j \in DOMAIN A[i] |-> s * A[i][j]]])
MatT(A) ==
    Evaluated([j \in Range(Cols(A)) |-> [i \in Range(Rows(A)) |-> A[i][j]]])
MatMul(A, B) ==
    Evaluated([i \in Range(Rows(A)) |-> [j \in Range(Cols(B)) |->
        SumFn([k \in Range(Cols(A)) |-> A[i][k] * B[k][j]], Cols(A))]])

\* sp.kron(A, B)
kron(A, B) ==
    LET p == Rows(B)
        q == Cols(B)
    IN  Evaluated([r \in Range(Rows(A) * p) |-> [c \in Range(Cols(A) * q) |->
            A[r \div p][c \div q] * B[r % p][c % q]]])

\* sp.diags(d, 0, shape=(n, n))
diags0(d, n) == [i \in Range(n) |-> [j \in Range(n) |-> IF i = j THEN d[i] ELSE 0]]
\* sp.diags([v], [1], shape=(n, n)): v on the first superdiagonal
diags1(v, n) == [i \in Range(n) |-> [j \in Range(n) |-> IF j = i + 1 THEN v ELSE 0]]

RECURSIVE SumMats(_, _, _)
\* Python's sum() of the matrices M[0], ..., M[n-1] (0 for the empty sum)
SumMats(M, n, zero) == IF n = 0 THEN zero ELSE MatAdd(SumMats(M, n - 1, zero), M[n - 1])

\* A state psi handed to apply(): a 1-D vector or a 2-D matrix of columns
Vec(v) == [ndim |-> 1, a |-> v]
Mat(m) == [ndim |-> 2, a |-> m]

\* A @ x for a vector or a matrix x
Dot(A, x) ==
    IF x.ndim = 1
    THEN Vec(Evaluated([i \in Range(Rows(A)) |->
                SumFn([k \in Range(Cols(A)) |-> A[i][k] * x.a[k]], Cols(A))]))
    ELSE Mat(MatMul(A, x.a))

ArrAdd(x, y) ==
    IF x.ndim = 1 THEN Vec(Evaluated([i \in DOMAIN x.a |-> x.a[i] + y.a[i]]))
                  ELSE Mat(MatAdd(x.a, y.a))
ArrSub(x, y) ==
    IF x.ndim = 1 THEN Vec(Evaluated([i \in DOMAIN x.a |-> x.a[i] - y.a[i]]))
                  ELSE Mat(MatSub(x.a, y.a))
ArrScale(s, x) ==
    IF x.ndim = 1 THEN Vec(Evaluated([i \in DOMAIN x.a |-> s * x.a[i]]))
                  ELSE Mat(MatScale(s, x.a))
ArrZero(x) == ArrScale(0, x)

RECURSIVE SumArrs(_, _, _)
SumArrs(M, n, zero) == IF n = 0 THEN zero ELSE ArrAdd(SumArrs(M, n - 1, zero), M[n - 1])


-----------------------------------------------------------------------------
(* Arguments: a Python scalar, an ndarray, or None *)

None == [kind |-> "none"]
Scalar(v) == [kind |-> "scalar", v |-> v]
Array(a) == [kind |-> "array", v |-> a]

\* x * np.ones(n), when it does not raise: a scalar and an array of length 1
\* are broadcast to all n entries; any other array keeps its entries
times_ones(x, n) ==
    IF x.kind = "scalar" THEN [i \in Range(n) |-> x.v]
    ELSE IF DOMAIN x.v = {0} THEN [i \in Range(n) |-> x.v[0]]
    ELSE x.v

\* whether x * np.ones(n) can be computed: numpy raises ValueError for an
\* array whose length is neither n nor 1, unless n is 1
broadcasts(x, n) ==
    \/ x.kind = "scalar"
    \/ Cardinality(DOMAIN x.v) = n
    \/ Cardinality(DOMAIN x.v) = 1
    \/ n = 1

\* g * np.ones((n, n))
times_ones2(g, n) ==
    IF g.kind = "scalar" THEN [i \in Range(n) |-> [j \in Range(n) |-> g.v]] ELSE g.v

\* g returned as given, without (g + g.T)/2.0
symmetrize_skipped(g) == g

\* (g + g.T)/2.0 on numerators
symmetrize(g) ==
    LET gT == MatT(g)
    IN  [i \in DOMAIN g |-> [j \in DOMAIN g |-> (g[i][j] + gT[i][j]) \div 2]]

-----------------------------------------------------------------------------
(* class Transmons *)

\* N = sp.diags(np.arange(-nmax, nmax + 1, 1), 0, shape=(dim, dim))
charge_operator(nmax) ==
    LET dim == 2 * nmax + 1
    IN  diags0([i \in Range(dim) |-> i - nmax], dim)

\* (Sup+Sdo)/2. with Sup = sp.diags([1.0], [1], shape=(dim,dim)), Sdo = Sup.T
josephson_operator(nmax) ==
    LET dim == 2 * nmax + 1
        Sup == diags1(1, dim)
        Sdo == MatT(Sup)
        S   == MatAdd(Sup, Sdo)
    IN  Evaluated([i \in Range(dim) |-> [j \in Range(dim) |-> (Den * S[i][j]) \div 2]])

\* qubit_operator with the two identities exchanged: kron(ir, kron(op, il))
qubit_operator_reversed(op, j, N) ==
    LET d  == Rows(op)
        il == eye(Pow(d, j))
        ir == eye(Pow(d, N - j - 1))
    IN  kron(ir, kron(op, il))

\* Extend an operator to act on the whole Hilbert space
qubit_operator(op, j, N) ==
    LET d  == Rows(op)
        il == eye(Pow(d, j))
        ir == eye(Pow(d, N - j - 1))
    IN  kron(il, kron(op, ir))

\* self.Hcap = sum((4.0*Ec) * (N-ng*Id)**2 for ng, Ec, N in zip(ng, self.Ec, self.N))
capacitive_energy(Ec, ng, N, nqubits, fulldim) ==
    LET Id == eye(fulldim)
        term(k) == LET D == MatSub(N[k], MatScale(ng[k], Id))
                   IN  MatScale(Den * (4 * Ec[k]), MatMul(D, D))
    IN  SumMats([k \in Range(nqubits) |-> term(k)], nqubits, Zeros(fulldim, fulldim))

\* Transmons.__init__: the attribute values, in the order they are assigned
Transmons_values(nqubits, Ec, EJ, g, ng, nmax) ==
    LET dim     == 2 * nmax + 1
        fulldim == Pow(dim, nqubits)
        EcA     == times_ones(Ec, nqubits)
        ngA     == times_ones(ng, nqubits)
        EJA     == times_ones(EJ, nqubits)
        N       == [j \in Range(nqubits) |-> qubit_operator(charge_operator(nmax), j, nqubits)]
        HJJ     == [j \in Range(nqubits) |-> qubit_operator(josephson_operator(nmax), j, nqubits)]
    IN  [Ec |-> EcA, ng |-> ngA, EJ |-> EJA, N |-> N,
         Hcap |-> capacitive_energy(EcA, ngA, N, nqubits, fulldim),
         HJJ |-> HJJ,
         g |-> symmetrize(times_ones2(g, nqubits))]

\* Transmons.__init__, up to the assert: how the call ends
Transmons_outcome(nqubits, Ec, EJ, ng) ==
    IF ~(broadcasts(Ec, nqubits) /\ broadcasts(ng, nqubits) /\ broadcasts(EJ, nqubits))
    THEN "ValueError"
    ELSE LET len(x) == Cardinality(DOMAIN times_ones(x, nqubits))
         IN  IF len(Ec) = len(ng) /\ len(ng) = len(EJ) /\ len(EJ) = nqubits
             THEN "ok"
             ELSE "AssertionError"

\* Transmons.__init__: a new instance whose attributes refer to new objects
Transmons_init(h, nqubits, Ec, EJ, g, ng, nmax) ==
    LET v == Transmons_values(nqubits, Ec, EJ, g, ng, nmax)
        b == Len(h)
        fulldim == Pow(2 * nmax + 1, nqubits)
    IN  [heap |-> h \o <<v.Ec, v.ng, v.EJ, v.N, v.Hcap, v.HJJ, v.g>>,
         self |-> [nqubits |-> nqubits, nmax |-> nmax, shape |-> <<fulldim, fulldim>>,
                   Ec |-> b + 1, ng |-> b + 2, EJ |-> b + 3, N |-> b + 4,
                   Hcap |-> b + 5, HJJ |-> b + 6, g |-> b + 7]]

RECURSIVE pairs_below(_)
\* the (i, j) of: for i in range(n) for j in range(i)
pairs_below(n) ==
    IF n = 0 THEN <<>>
    ELSE pairs_below(n - 1) \o [j \in 1 .. (n - 1) |-> <<n - 1, j - 1>>]

\* ... if g[i,j]
coupled_pairs(g, n) == SelectSeq(pairs_below(n), LAMBDA p : g[p[1]][p[2]] # 0)

\* hamiltonian with each coupled pair counted once: g[i,j] in place of 2*g[i,j]
hamiltonian_pair_once(h, self) ==
    LET EJ   == h[self.EJ]
        HJJ  == h[self.HJJ]
        N    == h[self.N]
        g    == h[self.g]
        zero == Zeros(self.shape[1], self.shape[2])
        ps   == coupled_pairs(g, self.nqubits)
        jj   == [k \in Range(self.nqubits) |-> MatScale(-EJ[k], HJJ[k])]
        cc   == [k \in Range(Len(ps)) |->
                    LET i == ps[k + 1][1]
                        j == ps[k + 1][2]
                    IN  MatScale(g[i][j], MatMul(N[i], N[j]))]
    IN  MatAdd(MatAdd(h[self.Hcap], SumMats(jj, self.nqubits, zero)),
               SumMats(cc, Len(ps), zero))

\* Transmons.hamiltonian
hamiltonian(h, self) ==
    LET EJ   == h[self.EJ]
        HJJ  == h[self.HJJ]
        N    == h[self.N]
        g    == h[self.g]
        zero == Zeros(self.shape[1], self.shape[2])
        ps   == coupled_pairs(g, self.nqubits)
        jj   == [k \in Range(self.nqubits) |-> MatScale(-EJ[k], HJJ[k])]
        cc   == [k \in Range(Len(ps)) |->
                    LET i == ps[k + 1][1]
                        j == ps[k + 1][2]
                    IN  MatScale(2 * g[i][j], MatMul(N[i], N[j]))]
    IN  MatAdd(MatAdd(h[self.Hcap], SumMats(jj, self.nqubits, zero)),
               SumMats(cc, Len(ps), zero))

\* apply with each coupled pair counted once: g[i,j] in place of 2*g[i,j]
apply_pair_once(h, self, psi) ==
    LET g    == h[self.g]
        N    == h[self.N]
        EJ   == h[self.EJ]
        HJJ  == h[self.HJJ]
        zero == ArrZero(psi)
        ps   == coupled_pairs(g, self.nqubits)
        jj   == [k \in Range(self.nqubits) |-> ArrScale(EJ[k], Dot(HJJ[k], psi))]
        cc   == [k \in Range(Len(ps)) |->
                    LET i == ps[k + 1][1]
                        j == ps[k + 1][2]
                    IN  ArrScale(g[i][j], Dot(N[i], Dot(N[j], psi)))]
    IN  ArrAdd(ArrSub(Dot(h[self.Hcap], psi), SumArrs(jj, self.nqubits, zero)),
               SumArrs(cc, Len(ps), zero))

\* Transmons.apply (also _matvec and _matmat)
apply(h, self, psi) ==
    LET g    == h[self.g]
        N    == h[self.N]
        EJ   == h[self.EJ]
        HJJ  == h[self.HJJ]
        zero == ArrZero(psi)
        ps   == coupled_pairs(g, self.nqubits)
        jj   == [k \in Range(self.nqubits) |-> ArrScale(EJ[k], Dot(HJJ[k], psi))]
        cc   == [k \in Range(Len(ps)) |->
                    LET i == ps[k + 1][1]
                        j == ps[k + 1][2]
                    IN  ArrScale(2 * g[i][j], Dot(N[i], Dot(N[j], psi)))]
    IN  ArrAdd(ArrSub(Dot(h[self.Hcap], psi), SumArrs(jj, self.nqubits, zero)),
               SumArrs(cc, Len(ps), zero))

\* out.<name>[:] = value: the object the attribute refers to is overwritten
rebind_in_place(h, o, name, value) ==
    [heap |-> [h EXCEPT ![o[name]] = value], self |-> o]

\* out.<name> = value: the attribute is bound to a new object
rebind(h, o, name, value) ==
    [heap |-> Append(h, value), self |-> [o EXCEPT ![name] = Len(h) + 1]]

\* tune with "elif g is not None": g is ignored when EJ is given
tune_elif(h, self, EJ, g) ==
    LET o0 == [heap |-> h, self |-> self]
    IN  IF EJ.kind # "none"
        THEN rebind(o0.heap, o0.self, "EJ", times_ones(EJ, self.nqubits))
        ELSE IF g.kind # "none"
        THEN rebind(o0.heap, o0.self, "g", symmetrize(times_ones2(g, self.nqubits)))
        ELSE o0

\* Transmons.tune: out = copy.copy(self) shares every attribute with self
tune(h, self, EJ, g) ==
    LET o0 == [heap |-> h, self |-> self]
        o1 == IF EJ.kind # "none"
              THEN rebind(o0.heap, o0.self, "EJ", times_ones(EJ, self.nqubits))
              ELSE o0
        o2 == IF g.kind # "none"
              THEN rebind(o1.heap, o1.self, "g",
                          symmetrize(times_ones2(g, self.nqubits)))
              ELSE o1
    IN  o2

-----------------------------------------------------------------------------
(* The inputs the model draws from *)

\* (nqubits, nmax) with (2*nmax+1)^nqubits <= MaxDim
Sizes ==
    {s \in (1 .. MaxQubits) \X (0 .. MaxCutoff) : Pow(2 * s[2] + 1, s[1]) <= MaxDim}

\* per-qubit parameters: a scalar, or an array with a different value per qubit
\* (tuples, because a scalar and an array cannot be members of one set)
EcInputs(n) == <<Scalar(1), Array([i \in Range(n) |-> i + 1])>>
ngInputs(n) == <<Scalar(0), Array([i \in Range(n) |-> 1 - (i % 2)])>>
EJInputs(n) == <<Scalar(1), Array([i \in Range(n) |-> 2 - (i % 2)])>>
EJTunings(n) == <<None, Scalar(3), Array([i \in Range(n) |-> 2 * i + 1])>>

\* couplings (numerators over Den): zero, a nonzero scalar, an upper-triangular
\* matrix, and a matrix whose entries all differ (nonzero diagonal, asymmetric)
Upper(n, v) == [i \in Range(n) |-> [j \in Range(n) |-> IF i < j THEN Den * v ELSE 0]]
Lower(n, v) == [i \in Range(n) |-> [j \in Range(n) |-> IF i > j THEN Den * v ELSE 0]]
Ramp(n) == [i \in Range(n) |-> [j \in Range(n) |-> Den * (i * n + j + 1)]]
gInputs(n) == <<Scalar(0), Scalar(Den * 1), Array(Upper(n, 1)), Array(Ramp(n))>>
gTunings(n) == <<None, Scalar(0), Scalar(Den * 2), Array(Lower(n, 3))>>

\* states handed to apply(): a vector, the identity, and a two-column matrix
TestStates(d) ==
    <<Vec([i \in Range(d) |-> i + 1]),
      Mat(eye(d)),
      Mat([i \in Range(d) |-> [j \in Range(2) |-> IF j = 0 THEN 1 ELSE i - 1]])>>

-----------------------------------------------------------------------------
(* The Transmons state machine *)

NoCall == [op |-> "none"]
NoLattice == [status |-> "none"]

Init ==
    /\ heap = <<>>
    /\ objs = <<>>
    /\ hist = <<>>
    /\ out = NoCall
    /\ poked = <<>>
    /\ lat = NoLattice

AttrNames == {"Ec", "ng", "EJ", "N", "Hcap", "HJJ", "g"}

\* the objects the instances os refer to
Refs(os) == {os[k][a] : k \in DOMAIN os, a \in AttrNames}

\* The caller keeps the instances os; the objects no instance refers to any
\* more are reclaimed and the rest keep their order.
Collect(h, os) ==
    LET live == Refs(os)
        rank(a) == Cardinality({b \in live : b <= a})
    IN  [heap |-> [n \in 1 .. Cardinality(live) |-> h[CHOOSE a \in live : rank(a) = n]],
         objs |-> [k \in DOMAIN os |->
                     [os[k] EXCEPT !.Ec = rank(@), !.ng = rank(@), !.EJ = rank(@),
                                   !.N = rank(@), !.Hcap = rank(@), !.HJJ = rank(@),
                                   !.g = rank(@)]]]

\* What an instance shows its callers
View(h, self) ==
    [Ec |-> h[self.Ec], ng |-> h[self.ng], EJ |-> h[self.EJ], g |-> h[self.g],
     H |-> hamiltonian(h, self),
     A |-> apply(h, self, TestStates(self.shape[1])[1])]

\* t = Transmons(nqubits, Ec, EJ, g, ng, nmax)
Construct ==
    /\ objs = <<>>
    /\ \E s \in Sizes :
        \E a \in DOMAIN EcInputs(s[1]), b \in DOMAIN EJInputs(s[1]),
           c \in DOMAIN gInputs(s[1]), d \in DOMAIN ngInputs(s[1]) :
            LET Ec == EcInputs(s[1])[a]
                EJ == EJInputs(s[1])[b]
                g  == gInputs(s[1])[c]
                ng == ngInputs(s[1])[d]
                r  == Transmons_init(heap, s[1], Ec, EJ, g, ng, s[2])
            IN  /\ heap' = r.heap
                /\ objs' = <<r.self>>
                /\ hist' = <<[nqubits |-> s[1], nmax |-> s[2],
                              Ec |-> times_ones(Ec, s[1]),
                              ng |-> times_ones(ng, s[1]),
                              EJ |-> times_ones(EJ, s[1]),
                              gin |-> times_ones2(g, s[1]),
                              tunes |-> 0,
                              born |-> View(r.heap, r.self)]>>
    /\ out' = NoCall
    /\ UNCHANGED <<poked, lat>>

\* u = objs[r].tune(EJ, g); the caller keeps t and u
Tune(r) ==
    /\ r \in DOMAIN objs
    /\ \E a \in DOMAIN EJTunings(objs[r].nqubits), b \in DOMAIN gTunings(objs[r].nqubits) :
        LET n    == objs[r].nqubits
            EJ   == EJTunings(n)[a]
            g    == gTunings(n)[b]
            res  == tune(heap, objs[r], EJ, g)
            kept == Collect(res.heap, <<objs[1], res.self>>)
        IN  /\ heap' = kept.heap
            /\ objs' = kept.objs
            /\ hist' = <<hist[1],
                         [hist[r] EXCEPT
                            !.EJ = IF EJ.kind = "none" THEN @ ELSE times_ones(EJ, n),
                            !.gin = IF g.kind = "none" THEN @ ELSE times_ones2(g, n),
                            !.tunes = IF @ < 2 THEN @ + 1 ELSE @]>>
    /\ out' = NoCall
    /\ UNCHANGED <<poked, lat>>

\* objs[r].hamiltonian()
Hamiltonian(r) ==
    /\ r \in DOMAIN objs
    /\ out = NoCall
    /\ out' = [op |-> "hamiltonian", self |-> r, val |-> hamiltonian(heap, objs[r])]
    /\ UNCHANGED <<heap, objs, hist, poked, lat>>

\* objs[r].apply(psi), also objs[r] @ psi
Apply(r) ==
    /\ r \in DOMAIN objs
    /\ out = NoCall
    /\ \E k \in DOMAIN TestStates(objs[r].shape[1]) :
        LET psi == TestStates(objs[r].shape[1])[k]
        IN  out' = [op |-> "apply", self |-> r, arg |-> psi,
                    val |-> apply(heap, objs[r], psi)]
    /\ UNCHANGED <<heap, objs, hist, poked, lat>>

TransmonNext ==
    \/ Construct
    \/ \E r \in 1 .. 2 : Tune(r)
    \/ \E r \in 1 .. 2 : Hamiltonian(r)
    \/ \E r \in 1 .. 2 : Apply(r)

TransmonSpec == Init /\ [][TransmonNext]_vars

-----------------------------------------------------------------------------
(* Constructing a Transmons from arrays of any length *)

\* a scalar, and the arrays (1, 2, ..., m) for m = 0..MaxArg
ArgInputs ==
    [k \in 1 .. (MaxArg + 2) |->
        IF k = 1 THEN Scalar(1) ELSE Array([i \in Range(k - 2) |-> i + 1])]

\* t = Transmons(nqubits, Ec=Ec, EJ=EJ, ng=ng, nmax=nmax)
ConstructFromArrays ==
    /\ objs = <<>>
    /\ out = NoCall
    /\ \E s \in Sizes :
        \E a, b, c \in DOMAIN ArgInputs :
            LET Ec == ArgInputs[a]
                EJ == ArgInputs[b]
                ng == ArgInputs[c]
                status == Transmons_outcome(s[1], Ec, EJ, ng)
                r  == Transmons_init(heap, s[1], Ec, EJ, Scalar(0), ng, s[2])
            IN  /\ out' = [op |-> "Transmons", nqubits |-> s[1], nmax |-> s[2],
                           Ec |-> Ec, EJ |-> EJ, ng |-> ng, status |-> status]
                /\ IF status = "ok"
                   THEN /\ heap' = r.heap
                        /\ objs' = <<r.self>>
                        /\ hist' = <<[nqubits |-> s[1], nmax |-> s[2],
                                      Ec |-> times_ones(Ec, s[1]),
                                      ng |-> times_ones(ng, s[1]),
                                      EJ |-> times_ones(EJ, s[1]),
                                      gin |-> times_ones2(Scalar(0), s[1]),
                                      tunes |-> 0,
                                      born |-> View(r.heap, r.self)]>>
                   ELSE UNCHANGED <<heap, objs, hist>>
    /\ UNCHANGED <<poked, lat>>

ArgNext == ConstructFromArrays

ArgSpec == Init /\ [][ArgNext]_vars

-----------------------------------------------------------------------------
(* Clients writing in place through an instance's public attributes *)

\* a[0] += 1 on a 1-D array
bump_first(a) == [a EXCEPT ![0] = @ + 1]
\* m[i, j] += 1.0 on a matrix of numerators
bump_entry(m, i, j) == [m EXCEPT ![i][j] = @ + Den]

\* The in-place write a client makes through instance self on attribute name:
\*   self.Ec[0] += 1, self.ng[0] += 1, self.EJ[0] += 1,
\*   self.g[nqubits-1, 0] += 1.0, self.Hcap[0, 0] += 1.0,
\*   self.N[0][0, 0] += 1.0 and self.HJJ[0][0, 0] += 1.0
write_in_place(h, self, name) ==
    LET a == self[name]
    IN  CASE name \in {"Ec", "ng", "EJ"} -> [h EXCEPT ![a] = bump_first(@)]
          [] name = "g" -> [h EXCEPT ![a] = bump_entry(@, self.nqubits - 1, 0)]
          [] name = "Hcap" -> [h EXCEPT ![a] = bump_entry(@, 0, 0)]
          [] name \in {"N", "HJJ"} -> [h EXCEPT ![a][0] = bump_entry(@, 0, 0)]

Poke(r, name) ==
    /\ Len(objs) = 2
    /\ r \in DOMAIN objs
    /\ Len(poked) < MaxPokes
    /\ heap' = write_in_place(heap, objs[r], name)
    /\ poked' = Append(poked,
                  [via |-> r, attr |-> name,
                   before |-> [k \in DOMAIN objs |->
                       [H |-> hamiltonian(heap, objs[k]),
                        A |-> apply(heap, objs[k], TestStates(objs[k].shape[1])[1])]]])
    /\ UNCHANGED <<objs, hist, out, lat>>

AliasNext ==
    \/ /\ poked = <<>>
       /\ \/ Construct
          \/ \E r \in 1 .. 2 : Tune(r)
    \/ \E r \in 1 .. 2, name \in AttrNames : Poke(r, name)

AliasSpec == Init /\ [][AliasNext]_vars

-----------------------------------------------------------------------------
(* class Regular3DLattice *)

\* A Python list as a 0-based array
pylist(seq) == [i \in Range(Len(seq)) |-> seq[i + 1]]

\* bcc_condition of BCCLattice
bcc_condition(X, Y, Z) ==
    LET dX == X % 2
        dY == Y % 2
        dZ == Z % 2
    IN  (dX = dY) /\ (dX = dZ)

np_abs(x) == IF x < 0 THEN -x ELSE x

\* the rhombus cut along one diagonal only: np.abs(X-Y) <= L
rhombus_condition_one_diagonal(r0, L, X, Y, Z) ==
    LET X1 == X - r0[1]
        Y1 == Y - r0[2]
    IN  np_abs(X1 - Y1) <= L

\* condition of RhombusLattice, r0 being the centre (X0, Y0, Z0)
rhombus_condition(r0, L, X, Y, Z) ==
    LET X1 == X - r0[1]
        Y1 == Y - r0[2]
    IN  (np_abs(X1 - Y1) <= L) /\ (np_abs(X1 + Y1) <= L)

\* condition(X, Y, Z) for the conditions the model draws from; "all" is
\* condition=None, replaced by lambda X, Y, Z: True
condition_holds(condition, X, Y, Z) ==
    CASE condition.kind = "all" -> TRUE
      [] condition.kind = "none" -> FALSE
      [] condition.kind = "except" -> <<X, Y, Z>> # condition.c
      [] condition.kind = "bcc" -> bcc_condition(X, Y, Z)
      [] condition.kind = "rhombus" -> rhombus_condition(condition.c, condition.L, X, Y, Z)

\* hopping(X, Y, Z): the list of (J, (X', Y', Z')) pairs, for a rule given as
\* a list of (J, offset)
hopping_pairs(rule, X, Y, Z) ==
    [k \in 1 .. Len(rule) |->
        <<rule[k].J, <<X + rule[k].d[1], Y + rule[k].d[2], Z + rule[k].d[3]>>>>]

RECURSIVE points_z(_, _, _, _, _)
\* for Z in range(Z, Z+n) if condition(X, Y, Z)
points_z(condition, X, Y, Z, n) ==
    IF n <= 0 THEN <<>>
    ELSE (IF condition_holds(condition, X, Y, Z) THEN <<<<X, Y, Z>>>> ELSE <<>>)
         \o points_z(condition, X, Y, Z + 1, n - 1)

RECURSIVE points_y(_, _, _, _, _, _)
\* for Y in range(Y, Y+ny) for Z in range(Z0, Z0+nz)
points_y(condition, X, Y, ny, Z0, nz) ==
    IF ny <= 0 THEN <<>>
    ELSE points_z(condition, X, Y, Z0, nz)
         \o points_y(condition, X, Y + 1, ny - 1, Z0, nz)

RECURSIVE points_x(_, _, _, _, _, _, _)
\* for X in range(X, X+nx) for Y in range(Y0, Y0+ny) for Z in range(Z0, Z0+nz)
points_x(condition, X, nx, Y0, ny, Z0, nz) ==
    IF nx <= 0 THEN <<>>
    ELSE points_y(condition, X, Y0, ny, Z0, nz)
         \o points_x(condition, X + 1, nx - 1, Y0, ny, Z0, nz)

\* the points with the loops nested the other way round: Z outermost, X innermost
lattice_points_z_slowest(sizes, r0, condition) ==
    LET n   == sizes[1] * sizes[2] * sizes[3]
        box == [k \in 1 .. n |->
                   <<r0[1] + ((k - 1) % sizes[1]),
                     r0[2] + (((k - 1) \div sizes[1]) % sizes[2]),
                     r0[3] + ((k - 1) \div (sizes[1] * sizes[2]))>>]
    IN  SelectSeq(box, LAMBDA c : condition_holds(condition, c[1], c[2], c[3]))

\* coord = [(X,Y,Z) for X in ... for Y in ... for Z in ... if condition(X, Y, Z)]
lattice_points(sizes, r0, condition) ==
    points_x(condition, r0[1], sizes[1], r0[2], sizes[2], r0[3], sizes[3])

\* the dict with the indices counted from 1: enumerate(coord, 1)
index_map_from_one(coord) ==
    [c \in {coord[k] : k \in DOMAIN coord} |->
        CHOOSE k \in DOMAIN coord :
            coord[k] = c /\ \A k2 \in DOMAIN coord : coord[k2] = c => k2 <= k]

\* ndx_map = {vector: ndx for ndx, vector in enumerate(coord)}: a later entry
\* of the list replaces an earlier one with the same key
index_map(coord) ==
    [c \in {coord[k] : k \in DOMAIN coord} |->
        (CHOOSE k \in DOMAIN coord :
            coord[k] = c /\ \A k2 \in DOMAIN coord : coord[k2] = c => k2 <= k) - 1]

\* [(J, i, ndx_map[dest]) for J, dest in hopping(*orig) if dest in ndx_map]
site_hops(rule, i, orig, ndx_map) ==
    LET pairs == hopping_pairs(rule, orig[1], orig[2], orig[3])
        kept  == SelectSeq(pairs, LAMBDA p : p[2] \in DOMAIN ndx_map)
    IN  [k \in 1 .. Len(kept) |-> <<kept[k][1], i, ndx_map[kept[k][2]]>>]

RECURSIVE lattice_hops(_, _, _, _)
\* hops = [... for i, orig in enumerate(coord) for J, dest in hopping(*orig) ...],
\* here for the first n points
lattice_hops(rule, coord, ndx_map, n) ==
    IF n = 0 THEN <<>>
    ELSE lattice_hops(rule, coord, ndx_map, n - 1)
         \o site_hops(rule, n - 1, coord[n], ndx_map)

RECURSIVE sum_entries(_, _, _, _)
\* the sum of the data of the first n triples that lie at (row, col)
sum_entries(hops, n, row, col) ==
    IF n = 0 THEN 0
    ELSE sum_entries(hops, n - 1, row, col)
         + (IF hops[n][2] = row /\ hops[n][3] = col THEN hops[n][1] ELSE 0)

\* a matrix in which a later triple at (row, col) replaces an earlier one
csr_matrix_last_wins(hops, L) ==
    Evaluated([r \in Range(L) |-> [c \in Range(L) |->
        LET at == {k \in DOMAIN hops : hops[k][2] = r /\ hops[k][3] = c}
        IN  IF at = {} THEN 0
            ELSE hops[CHOOSE k \in at : \A k2 \in at : k2 <= k][1]]])

\* sp.csr_matrix((data, (rows, cols)), shape=(L, L)): entries given more than
\* once are summed
csr_matrix(hops, L) ==
    Evaluated([r \in Range(L) |-> [c \in Range(L) |-> sum_entries(hops, Len(hops), r, c)]])

Min(S) == CHOOSE x \in S : \A y \in S : x <= y
Max(S) == CHOOSE x \in S : \A y \in S : y <= x

\* Regular3DLattice.__init__ (with Lattice.__init__)
Regular3DLattice(sizes, rule, r0, condition) ==
    LET coord   == lattice_points(sizes, r0, condition)
        ndx_map == index_map(coord)
        hops    == lattice_hops(rule, coord, ndx_map, Len(coord))
        L       == Cardinality(DOMAIN ndx_map)
        dimension == IF sizes[3] > 1 THEN 3 ELSE IF sizes[2] > 1 THEN 2 ELSE 1
        axis(a) == {coord[k][a] : k \in DOMAIN coord}
    IN  IF hops = <<>>
        THEN \* np.array([]) is 1-D: hops[:,0] raises IndexError
             [status |-> "IndexError"]
        ELSE [status |-> "ok",
              H |-> csr_matrix(hops, L),
              size |-> L,
              dimension |-> dimension,
              coord |-> pylist(coord),
              ndx_map |-> ndx_map,
              Xmin |-> Min(axis(1)), Xmax |-> Max(axis(1)),
              Ymin |-> Min(axis(2)), Ymax |-> Max(axis(2)),
              Zmin |-> Min(axis(3)), Zmax |-> Max(axis(3))]

\* Regular3DLattice.vertex_index
vertex_index(self, r) == self.ndx_map[r]

-----------------------------------------------------------------------------
(* The inputs the lattice model draws from *)

LatticeSizes ==
    {s \in (1 .. MaxL) \X (1 .. MaxL) \X (1 .. MaxL) : s[1] * s[2] * s[3] <= MaxSites}

Corners == {<<0, 0, 0>>, <<-1, 2, 1>>}

\* the lattice's box: the points the three loops visit
Box(sizes, r0) ==
    {<<X, Y, Z>> : X \in r0[1] .. (r0[1] + sizes[1] - 1),
                   Y \in r0[2] .. (r0[2] + sizes[2] - 1),
                   Z \in r0[3] .. (r0[3] + sizes[3] - 1)}

\* conditions: every point, no point, the BCC parity condition, and every
\* point but one
Conditions(sizes, r0) ==
    {[kind |-> k, c |-> r0] : k \in {"all", "none", "bcc"}}
        \cup {[kind |-> "except", c |-> c] : c \in Box(sizes, r0)}

\* the (J, offset) pairs of a rule: two on-site terms, and neighbours along
\* the three axes with weights that differ by direction
Hops ==
    {[J |-> 1, d |-> <<0, 0, 0>>], [J |-> 2, d |-> <<0, 0, 0>>],
     [J |-> 3, d |-> <<1, 0, 0>>], [J |-> 1, d |-> <<-1, 0, 0>>],
     [J |-> 2, d |-> <<0, 1, 0>>], [J |-> 1, d |-> <<0, 0, -1>>]}

Rules == UNION {[1 .. n -> Hops] : n \in 0 .. MaxHops}

-----------------------------------------------------------------------------
(* The lattice state machine *)

\* lattice = Regular3DLattice(sizes, hopping, r0=r0, condition=condition)
Build ==
    /\ lat = NoLattice
    /\ \E sizes \in LatticeSizes, r0 \in Corners, rule \in Rules :
        \E condition \in Conditions(sizes, r0) :
            lat' = [status |-> "called", sizes |-> sizes, r0 |-> r0,
                    condition |-> condition, hopping |-> rule,
                    self |-> Regular3DLattice(sizes, rule, r0, condition)]
    /\ UNCHANGED <<heap, objs, hist, out, poked>>

LatticeNext == Build

LatticeSpec == Init /\ [][LatticeNext]_vars

-----------------------------------------------------------------------------
(* class Lattice1D, class SquareLattice and coupling_at *)

\* hopping1d of Lattice1D.__init__, as a list of (J, offset)
hopping1d_one_sided(J, omega) ==
    <<[J |-> omega, d |-> <<0, 0, 0>>], [J |-> J, d |-> <<1, 0, 0>>]>>

\* hopping1d of Lattice1D.__init__, as a list of (J, offset)
hopping1d(J, omega) ==
    <<[J |-> omega, d |-> <<0, 0, 0>>],
      [J |-> J, d |-> <<1, 0, 0>>],
      [J |-> J, d |-> <<-1, 0, 0>>]>>

\* Lattice1D.__init__; r0 and condition are the keyword arguments passed on
Lattice1D(L, J, omega, r0, condition) ==
    LET self == Regular3DLattice(<<L, 1, 1>>, hopping1d(J, omega), r0, condition)
    IN  IF self.status = "ok" THEN self @@ [J |-> J, omega |-> omega] ELSE self

\* hopping2d without the pair for the neighbour at Y-1
hopping2d_no_down(Jx, Jy, omega) ==
    <<[J |-> omega, d |-> <<0, 0, 0>>],
      [J |-> Jx, d |-> <<1, 0, 0>>],
      [J |-> Jx, d |-> <<-1, 0, 0>>],
      [J |-> Jy, d |-> <<0, 1, 0>>]>>

\* hopping2d of SquareLattice.__init__, as a list of (J, offset)
hopping2d(Jx, Jy, omega) ==
    <<[J |-> omega, d |-> <<0, 0, 0>>],
      [J |-> Jx, d |-> <<1, 0, 0>>],
      [J |-> Jx, d |-> <<-1, 0, 0>>],
      [J |-> Jy, d |-> <<0, 1, 0>>],
      [J |-> Jy, d |-> <<0, -1, 0>>]>>

\* SquareLattice.__init__: Ly defaults to Lx and Jy to Jx
SquareLattice(Lx, Ly, Jx, Jy, omega, r0, condition) ==
    LET Ly1  == IF Ly.kind = "none" THEN Lx ELSE Ly.v
        Jy1  == IF Jy.kind = "none" THEN Jx ELSE Jy.v
        self == Regular3DLattice(<<Lx, Ly1, 1>>, hopping2d(Jx, Jy1, omega), r0, condition)
    IN  IF self.status = "ok" THEN self @@ [J |-> <<Jx, Jy1>>, omega |-> omega] ELSE self

\* coupling_at that takes index 0 for a position that is not in the lattice
coupling_at_unchecked(self, r, g) ==
    LET ndx == IF r \in DOMAIN self.ndx_map THEN self.ndx_map[r] ELSE 0
    IN  [status |-> "ok", val |-> [i \in Range(self.size) |-> IF i = ndx THEN g ELSE 0]]

\* Regular3DLattice.coupling_at
coupling_at(self, r, g) ==
    IF r \notin DOMAIN self.ndx_map
    THEN [status |-> "Exception"]
    ELSE LET ndx == self.ndx_map[r]
         IN  [status |-> "ok",
              val |-> [i \in Range(self.size) |-> IF i = ndx THEN g ELSE 0]]

\* hopping amplitudes and local energies
Weights == {-1, 0, 2}

LyInputs == [k \in 1 .. (MaxSide + 1) |-> IF k = 1 THEN None ELSE Scalar(k - 1)]
JyInputs == <<None, Scalar(1), Scalar(-1)>>

\* positions asked of coupling_at: the box and two points outside it
Probes(sizes, r0) ==
    Box(sizes, r0)
        \cup {<<r0[1] - 1, r0[2], r0[3]>>,
              <<r0[1] + sizes[1], r0[2] + sizes[2], r0[3] + sizes[3]>>}

\* coupling strengths
Couplings == {0, 1, 3}

\* lattice = Lattice1D(L, J, omega, r0=r0, condition=condition)
BuildLattice1D ==
    /\ lat = NoLattice
    /\ \E L \in 1 .. MaxChain, J \in Weights, omega \in Weights, r0 \in Corners :
        \E condition \in Conditions(<<L, 1, 1>>, r0) :
            lat' = [status |-> "called", class |-> "Lattice1D",
                    sizes |-> <<L, 1, 1>>, r0 |-> r0, condition |-> condition,
                    hopping |-> hopping1d(J, omega),
                    args |-> [L |-> L, J |-> J, omega |-> omega],
                    self |-> Lattice1D(L, J, omega, r0, condition)]
    /\ UNCHANGED <<heap, objs, hist, out, poked>>

\* lattice = SquareLattice(Lx, Ly, Jx, Jy, omega, r0=r0, condition=condition)
BuildSquareLattice ==
    /\ lat = NoLattice
    /\ \E Lx \in 1 .. MaxSide, a \in DOMAIN LyInputs, Jx \in {1, 2},
          b \in DOMAIN JyInputs, omega \in {0, 1}, r0 \in Corners :
        LET Ly  == LyInputs[a]
            Jy  == JyInputs[b]
            Ly1 == IF Ly.kind = "none" THEN Lx ELSE Ly.v
            Jy1 == IF Jy.kind = "none" THEN Jx ELSE Jy.v
        IN  \E condition \in Conditions(<<Lx, Ly1, 1>>, r0) :
                lat' = [status |-> "called", class |-> "SquareLattice",
                        sizes |-> <<Lx, Ly1, 1>>, r0 |-> r0, condition |-> condition,
                        hopping |-> hopping2d(Jx, Jy1, omega),
                        args |-> [Lx |-> Lx, Ly |-> Ly, Jx |-> Jx, Jy |-> Jy,
                                  omega |-> omega],
                        self |-> SquareLattice(Lx, Ly, Jx, Jy, omega, r0, condition)]
    /\ UNCHANGED <<heap, objs, hist, out, poked>>

\* lattice.coupling_at(r, g)
CouplingAt ==
    /\ lat.status = "called"
    /\ lat.self.status = "ok"
    /\ out = NoCall
    /\ \E r \in Probes(lat.sizes, lat.r0), g \in Couplings :
        out' = [op |-> "coupling_at", r |-> r, g |-> g,
                res |-> coupling_at(lat.self, r, g)]
    /\ UNCHANGED <<heap, objs, hist, poked, lat>>

GeometryNext ==
    \/ BuildLattice1D
    \/ BuildSquareLattice
    \/ CouplingAt

GeometrySpec == Init /\ [][GeometryNext]_vars

-----------------------------------------------------------------------------
(* class CubicLattice, class BCCLattice and class RhombusLattice *)

\* hopping3d with Jy in place of Jz on the pair for the neighbour at Z-1
hopping3d_mixed(Jx, Jy, Jz, omega) ==
    <<[J |-> omega, d |-> <<0, 0, 0>>],
      [J |-> Jx, d |-> <<1, 0, 0>>], [J |-> Jx, d |-> <<-1, 0, 0>>],
      [J |-> Jy, d |-> <<0, 1, 0>>], [J |-> Jy, d |-> <<0, -1, 0>>],
      [J |-> Jz, d |-> <<0, 0, 1>>], [J |-> Jy, d |-> <<0, 0, -1>>]>>

\* hopping3d of CubicLattice.__init__, as a list of (J, offset)
hopping3d(Jx, Jy, Jz, omega) ==
    <<[J |-> omega, d |-> <<0, 0, 0>>],
      [J |-> Jx, d |-> <<1, 0, 0>>], [J |-> Jx, d |-> <<-1, 0, 0>>],
      [J |-> Jy, d |-> <<0, 1, 0>>], [J |-> Jy, d |-> <<0, -1, 0>>],
      [J |-> Jz, d |-> <<0, 0, 1>>], [J |-> Jz, d |-> <<0, 0, -1>>]>>

\* CubicLattice.__init__: Ly and Lz default to Lx, Jy and Jz to Jx
CubicLattice(Lx, Ly, Lz, Jx, Jy, Jz, omega, r0, condition) ==
    LET Ly1  == IF Ly.kind = "none" THEN Lx ELSE Ly.v
        Lz1  == IF Lz.kind = "none" THEN Lx ELSE Lz.v
        Jy1  == IF Jy.kind = "none" THEN Jx ELSE Jy.v
        Jz1  == IF Jz.kind = "none" THEN Jx ELSE Jz.v
        self == Regular3DLattice(<<Lx, Ly1, Lz1>>, hopping3d(Jx, Jy1, Jz1, omega),
                                 r0, condition)
    IN  IF self.status = "ok" THEN self @@ [J |-> <<Jx, Jy1, Jz1>>, omega |-> omega]
        ELSE self

\* bcc_hopping of BCCLattice.__init__, as a list of (J, offset)
bcc_hopping(J, omega) ==
    <<[J |-> omega, d |-> <<0, 0, 0>>],
      [J |-> J, d |-> <<1, 1, 1>>], [J |-> J, d |-> <<-1, -1, 1>>],
      [J |-> J, d |-> <<1, -1, 1>>], [J |-> J, d |-> <<-1, 1, 1>>],
      [J |-> J, d |-> <<1, 1, -1>>], [J |-> J, d |-> <<-1, -1, -1>>],
      [J |-> J, d |-> <<1, -1, -1>>], [J |-> J, d |-> <<-1, 1, -1>>]>>

\* BCCLattice.__init__: Ly and Lz default to Lx
BCCLattice(Lx, Ly, Lz, J, omega, r0) ==
    LET Ly1  == IF Ly.kind = "none" THEN Lx ELSE Ly.v
        Lz1  == IF Lz.kind = "none" THEN Lx ELSE Lz.v
        self == Regular3DLattice(<<Lx, Ly1, Lz1>>, bcc_hopping(J, omega), r0,
                                 [kind |-> "bcc", c |-> r0])
    IN  IF self.status = "ok" THEN self @@ [J |-> J, omega |-> omega] ELSE self

\* the corner RhombusLattice hands on: r0 = (X0 - L, Y0 - L, Z0)
rhombus_corner(L, r0) == <<r0[1] - L, r0[2] - L, r0[3]>>

\* RhombusLattice.__init__, r0 being the centre; Jy defaults to Jx
RhombusLattice(L, Jx, Jy, omega, r0) ==
    LET Jy1  == IF Jy.kind = "none" THEN Jx ELSE Jy.v
        self == Regular3DLattice(<<2 * L + 1, 2 * L + 1, 1>>, hopping2d(Jx, Jy1, omega),
                                 rhombus_corner(L, r0),
                                 [kind |-> "rhombus", c |-> r0, L |-> L])
    IN  IF self.status = "ok" THEN self @@ [J |-> <<Jx, Jy1>>, omega |-> omega] ELSE self

\* lattice = CubicLattice(Lx, Ly, Lz, Jx, Jy, Jz, omega, r0=r0, condition=condition)
BuildCubicLattice ==
    /\ lat = NoLattice
    /\ \E Lx \in 1 .. MaxL, a, b \in DOMAIN LyInputs, Jx \in {1, 2},
          c, d \in DOMAIN JyInputs, omega \in {0, 1}, r0 \in Corners :
        LET Ly  == LyInputs[a]
            Lz  == LyInputs[b]
            Jy  == JyInputs[c]
            Jz  == JyInputs[d]
            Ly1 == IF Ly.kind = "none" THEN Lx ELSE Ly.v
            Lz1 == IF Lz.kind = "none" THEN Lx ELSE Lz.v
            Jy1 == IF Jy.kind = "none" THEN Jx ELSE Jy.v
            Jz1 == IF Jz.kind = "none" THEN Jx ELSE Jz.v
        IN  /\ Lx * Ly1 * Lz1 <= MaxSites
            /\ \E condition \in Conditions(<<Lx, Ly1, Lz1>>, r0) :
                lat' = [status |-> "called", class |-> "CubicLattice",
                        sizes |-> <<Lx, Ly1, Lz1>>, r0 |-> r0, condition |-> condition,
                        hopping |-> hopping3d(Jx, Jy1, Jz1, omega),
                        args |-> [Lx |-> Lx, Ly |-> Ly, Lz |-> Lz, Jx |-> Jx, Jy |-> Jy,
                                  Jz |-> Jz, omega |-> omega],
                        self |-> CubicLattice(Lx, Ly, Lz, Jx, Jy, Jz, omega, r0, condition)]
    /\ UNCHANGED <<heap, objs, hist, out, poked>>

\* lattice = BCCLattice(Lx, Ly, Lz, J, omega, r0=r0)
BuildBCCLattice ==
    /\ lat = NoLattice
    /\ \E Lx \in 1 .. MaxL, a, b \in DOMAIN LyInputs, J \in Weights,
          omega \in Weights, r0 \in Corners :
        LET Ly  == LyInputs[a]
            Lz  == LyInputs[b]
            Ly1 == IF Ly.kind = "none" THEN Lx ELSE Ly.v
            Lz1 == IF Lz.kind = "none" THEN Lx ELSE Lz.v
        IN  /\ Lx * Ly1 * Lz1 <= MaxSites
            /\ lat' = [status |-> "called", class |-> "BCCLattice",
                       sizes |-> <<Lx, Ly1, Lz1>>, r0 |-> r0,
                       condition |-> [kind |-> "bcc", c |-> r0],
                       hopping |-> bcc_hopping(J, omega),
                       args |-> [Lx |-> Lx, Ly |-> Ly, Lz |-> Lz, J |-> J, omega |-> omega],
                       self |-> BCCLattice(Lx, Ly, Lz, J, omega, r0)]
    /\ UNCHANGED <<heap, objs, hist, out, poked>>

\* lattice = RhombusLattice(L, Jx, Jy, omega, r0=r0)
BuildRhombusLattice ==
    /\ lat = NoLattice
    /\ \E L \in 0 .. MaxRhombus, Jx \in {1, 2}, b \in DOMAIN JyInputs,
          omega \in Weights, r0 \in Corners :
        LET Jy  == JyInputs[b]
            Jy1 == IF Jy.kind = "none" THEN Jx ELSE Jy.v
        IN  lat' = [status |-> "called", class |-> "RhombusLattice",
                    sizes |-> <<2 * L + 1, 2 * L + 1, 1>>, r0 |-> rhombus_corner(L, r0),
                    condition |-> [kind |-> "rhombus", c |-> r0, L |-> L],
                    hopping |-> hopping2d(Jx, Jy1, omega),
                    args |-> [L |-> L, Jx |-> Jx, Jy |-> Jy, omega |-> omega, r0 |-> r0],
                    self |-> RhombusLattice(L, Jx, Jy, omega, r0)]
    /\ UNCHANGED <<heap, objs, hist, out, poked>>

BuiltinNext ==
    \/ BuildLattice1D
    \/ BuildSquareLattice
    \/ BuildCubicLattice
    \/ BuildBCCLattice
    \/ BuildRhombusLattice

BuiltinSpec == Init /\ [][BuiltinNext]_vars

-----------------------------------------------------------------------------
(* seeq/tools.py: lowest_eigenvalues, lowest_eigenstates; Transmons.frequencies *)

\* A Hermitian operator is given in its eigenbasis: H[i] is the eigenvalue of
\* its i-th eigenvector, i in 1..n.  Eigenvalues may repeat and be negative.
Eigenvalues == {-2, 0, 1, 3}
Operators == UNION {[1 .. n -> Eigenvalues] : n \in 2 .. MaxEig}

\* the quantity eigsh's `which` orders by: 'SA' algebraic, 'SM' magnitude
eigsh_key(which, x) == IF which = "SA" THEN x ELSE IF x < 0 THEN -x ELSE x

\* sp.linalg.eigsh(H, k, which=which): what the solver may return.  It hands
\* back k eigenpairs, none ranked after an eigenpair it leaves out, in an
\* order of its own; lam[a] is the eigenvalue and psi[a] (column a) the
\* eigenvector of pair a.  The solver requires 0 < k < n.
eigsh(H, k, which) ==
    {[lam |-> [a \in 1 .. k |-> H[cols[a]]], psi |-> cols] :
        cols \in {c \in [1 .. k -> DOMAIN H] :
                    /\ \A a, b \in 1 .. k : a # b => c[a] # c[b]
                    /\ \A a \in 1 .. k :
                         \A i \in DOMAIN H \ {c[b] : b \in 1 .. k} :
                             eigsh_key(which, H[c[a]]) <= eigsh_key(which, H[i])}}

RECURSIVE insert_sorted(_, _)
insert_sorted(x, s) ==
    IF s = <<>> THEN <<x>>
    ELSE IF x <= Head(s) THEN <<x>> \o s
    ELSE <<Head(s)>> \o insert_sorted(x, Tail(s))

\* np.sort left out: the array as it is
np_sort_skipped(a) == a

RECURSIVE np_sort(_)
\* np.sort(a)
np_sort(a) ==
    IF a = <<>> THEN <<>>
    ELSE insert_sorted(a[Len(a)], np_sort(SubSeq(a, 1, Len(a) - 1)))

\* np.argsort(a): an index array that sorts a; the default sort is not
\* stable, so equal entries may come in either order
np_argsort(a) ==
    {ndx \in [DOMAIN a -> DOMAIN a] :
        /\ \A i, j \in DOMAIN a : i # j => ndx[i] # ndx[j]
        /\ \A i, j \in DOMAIN a : i < j => a[ndx[i]] <= a[ndx[j]]}

\* a[ndx]
take(a, ndx) == [i \in DOMAIN ndx |-> a[ndx[i]]]

\* lowest_eigenvalues(H, neig): the values a call may return
lowest_eigenvalues(H, neig) ==
    {np_sort(raw.lam) : raw \in eigsh(H, neig, "SA")}

\* lowest_eigenstates that sorts the eigenvalues and leaves the columns as
\* the solver returned them
lowest_eigenstates_values_only(H, neig) ==
    UNION {{[lam |-> take(raw.lam, ndx), psi |-> raw.psi] : ndx \in np_argsort(raw.lam)} :
              raw \in eigsh(H, neig, "SA")}

\* lowest_eigenstates(H, neig): the (lam, psi) pairs a call may return
lowest_eigenstates(H, neig) ==
    UNION {{[lam |-> take(raw.lam, ndx), psi |-> take(raw.psi, ndx)] :
                ndx \in np_argsort(raw.lam)} :
              raw \in eigsh(H, neig, "SA")}

\* a tuple returned to the caller
Tuple(t) == [kind |-> "tuple", v |-> t]

\* frequencies that returns a tuple for every n
frequencies_always_tuple(H, n) ==
    {Tuple([i \in 1 .. n |-> lam[i + 1] - lam[1]]) : lam \in lowest_eigenvalues(H, n + 1)}

\* Transmons.frequencies(n), for a Transmons whose spectrum is H: the values
\* a call may return (arrays are 1-based here: lam[1] is the code's λ[0])
frequencies(H, n) ==
    {IF n > 1 THEN Tuple([i \in 1 .. n |-> lam[i + 1] - lam[1]])
              ELSE Scalar(lam[2] - lam[1]) :
        lam \in lowest_eigenvalues(H, n + 1)}

\* λ = lowest_eigenvalues(H, neig)
LowestEigenvalues ==
    /\ out = NoCall
    /\ \E H \in Operators :
        \E neig \in 1 .. (Len(H) - 1) :
            \E val \in lowest_eigenvalues(H, neig) :
                out' = [op |-> "lowest_eigenvalues", H |-> H, neig |-> neig, val |-> val]
    /\ UNCHANGED <<heap, objs, hist, poked, lat>>

\* λ, ψ = lowest_eigenstates(H, neig)
LowestEigenstates ==
    /\ out = NoCall
    /\ \E H \in Operators :
        \E neig \in 1 .. (Len(H) - 1) :
            \E val \in lowest_eigenstates(H, neig) :
                out' = [op |-> "lowest_eigenstates", H |-> H, neig |-> neig, val |-> val]
    /\ UNCHANGED <<heap, objs, hist, poked, lat>>

\* t.frequencies(n) on a Transmons t whose spectrum is H
Frequencies ==
    /\ out = NoCall
    /\ \E H \in Operators :
        \E n \in 1 .. (Len(H) - 2) :
            \E val \in frequencies(H, n) :
                out' = [op |-> "frequencies", H |-> H, n |-> n, val |-> val]
    /\ UNCHANGED <<heap, objs, hist, poked, lat>>

EigenNext ==
    \/ LowestEigenvalues
    \/ LowestEigenstates
    \/ Frequencies

EigenSpec == Init /\ [][EigenNext]_vars

-----------------------------------------------------------------------------
(* Transmons.qubit_basis *)

\* The eigenvectors of a matrix are not computed.  A column of a basis is
\* a Kronecker product of eigenvectors, kept as the list of its factors;
\* the factor [T |-> T, level |-> e] is the eigenvector of the matrix T for
\* its e-th lowest eigenvalue (e = 0: ground state).  A single transmon
\* with EJ # 0 is a tridiagonal matrix with nonzero off-diagonals, whose
\* eigenvalues are distinct; in its eigenbasis, taken by level, its
\* spectrum has the order of 0, 1, ..., dim-1.
Levels(dim) == [e \in 1 .. dim |-> e - 1]

\* ti built with the owner's ng[which] as offset
single_transmon_with_offset(h, self, which) ==
    Transmons_init(<<>>, 1, Scalar(h[self.Ec][which]), Scalar(h[self.EJ][which]),
                   Scalar(0), Scalar(h[self.ng][which]), self.nmax)

\* ti = Transmons(nqubits=1, Ec=self.Ec[which], EJ=self.EJ[which], nmax=self.nmax)
single_transmon(h, self, which) ==
    Transmons_init(<<>>, 1, Scalar(h[self.Ec][which]), Scalar(h[self.EJ][which]),
                   Scalar(0), Scalar(0), self.nmax)

\* _, basis = lowest_eigenstates(ti, 2): the bases a call may return.  The
\* solver raises TypeError unless 2 < dim.
qubit_basis_index(h, self, which) ==
    LET ti  == single_transmon(h, self, which)
        T   == hamiltonian(ti.heap, ti.self)
        dim == ti.self.shape[1]
    IN  IF 2 >= dim
        THEN {[status |-> "TypeError"]}
        ELSE {[status |-> "ok", rows |-> dim,
               cols |-> [c \in Range(2) |-> <<[T |-> T, level |-> val.psi[c + 1] - 1]>>]] :
                 val \in lowest_eigenstates(Levels(dim), 2)}

\* np.kron(A, B) of two bases: column c is column c div n of A times
\* column c mod n of B, n the number of columns of B
kron_columns(A, B) ==
    LET n == Cardinality(DOMAIN B.cols)
    IN  [status |-> "ok", rows |-> A.rows * B.rows,
         cols |-> [c \in Range(Cardinality(DOMAIN A.cols) * n) |->
                      A.cols[c \div n] \o B.cols[c % n]]]

RECURSIVE qubit_basis_loop(_, _, _)
\* basis = 1; for i in range(n): basis = np.kron(basis, self.qubit_basis(i))
qubit_basis_loop(h, self, n) ==
    IF n = 0 THEN {[status |-> "ok", rows |-> 1, cols |-> [c \in Range(1) |-> <<>>]]}
    ELSE UNION {{IF basis.status # "ok" THEN basis
                 ELSE IF q.status # "ok" THEN q
                 ELSE kron_columns(basis, q) :
                     q \in qubit_basis_index(h, self, n - 1)} :
                   basis \in qubit_basis_loop(h, self, n - 1)}

\* Transmons.qubit_basis(which): the bases a call may return
qubit_basis(h, self, which) ==
    IF which.kind = "none"
    THEN qubit_basis_loop(h, self, self.nqubits)
    ELSE qubit_basis_index(h, self, which.v)

\* which: None or a qubit index
WhichInputs(n) == [k \in 1 .. (n + 1) |-> IF k = 1 THEN None ELSE Scalar(k - 2)]

\* objs[r].qubit_basis(which)
QubitBasis(r) ==
    /\ r \in DOMAIN objs
    /\ out = NoCall
    /\ \E k \in DOMAIN WhichInputs(objs[r].nqubits) :
        \E val \in qubit_basis(heap, objs[r], WhichInputs(objs[r].nqubits)[k]) :
            out' = [op |-> "qubit_basis", self |-> r,
                    which |-> WhichInputs(objs[r].nqubits)[k], val |-> val]
    /\ UNCHANGED <<heap, objs, hist, poked, lat>>

BasisNext ==
    \/ /\ out = NoCall
       /\ \/ Construct
          \/ \E r \in 1 .. 2 : Tune(r)
    \/ \E r \in 1 .. 2 : QubitBasis(r)

BasisSpec == Init /\ [][BasisNext]_vars

-----------------------------------------------------------------------------
(* Claims about Transmons *)

\* A tuned copy reached by at least two tune() calls, of two coupled qubits
TwiceTuned ==
    /\ Len(objs) = 2
    /\ hist[2].tunes = 2
    /\ objs[2].nqubits = 2
    /\ objs[2].nmax = 1

\* C1: every value apply(psi) returned, for a vector or a matrix psi, on the
\* constructed operator or on a tuned copy, equals hamiltonian() @ psi.
C1_ApplyIsHamiltonianProduct ==
    out.op = "apply" =>
        out.val = Dot(hamiltonian(heap, objs[out.self]), out.arg)

\* apply() of a matrix was called on a twice-tuned copy with a nonzero coupling
\* that came from an asymmetric input
C1_Witness ==
    /\ TwiceTuned
    /\ out.op = "apply"
    /\ out.self = 2
    /\ out.arg.ndim = 2
    /\ heap[objs[2].g][1][0] # 0
    /\ hist[2].gin[1][0] # hist[2].gin[0][1]

\* C2: in every instance the stored coupling is symmetric and is the mean
\* (in[i,j] + in[j,i])/2 of the most recently supplied coupling input.
C2_CouplingSymmetrized ==
    \A k \in DOMAIN objs :
        LET g   == heap[objs[k].g]
            gin == hist[k].gin
        IN  \A i, j \in Range(objs[k].nqubits) :
                /\ g[i][j] = g[j][i]
                /\ 2 * g[i][j] = gin[i][j] + gin[j][i]

\* a twice-tuned copy whose own coupling came from an asymmetric input
C2_Witness ==
    /\ TwiceTuned
    /\ objs[2].g # objs[1].g
    /\ hist[2].gin[1][0] # hist[2].gin[0][1]

\* C3: whatever tune() calls were made on the original or on its copies, the
\* original shows the Ec, ng, EJ and g it was constructed with, and its
\* hamiltonian() and apply() return what they returned at construction.
C3_TuneLeavesOriginal ==
    objs # <<>> =>
        /\ heap[objs[1].Ec] = hist[1].born.Ec
        /\ heap[objs[1].ng] = hist[1].born.ng
        /\ heap[objs[1].EJ] = hist[1].born.EJ
        /\ heap[objs[1].g] = hist[1].born.g
        /\ (out.op = "hamiltonian" /\ out.self = 1) => out.val = hist[1].born.H
        /\ (out.op = "apply" /\ out.self = 1 /\ out.arg = TestStates(objs[1].shape[1])[1])
               => out.val = hist[1].born.A

\* hamiltonian() was called on the original after two tune() calls that
\* replaced both EJ and g in the copy
C3_Witness ==
    /\ TwiceTuned
    /\ objs[2].EJ # objs[1].EJ
    /\ objs[2].g # objs[1].g
    /\ heap[objs[2].EJ] # heap[objs[1].EJ]
    /\ heap[objs[2].g] # heap[objs[1].g]
    /\ out.op = "hamiltonian"
    /\ out.self = 1

\* The parameters the claim expects of instance k: those of the constructor,
\* with EJ and the coupling input replaced by the last ones passed to tune()
Expected(k) ==
    [nqubits |-> hist[1].nqubits, nmax |-> hist[1].nmax,
     Ec |-> hist[1].Ec, ng |-> hist[1].ng,
     EJ |-> hist[k].EJ, gin |-> hist[k].gin]

\* hamiltonian() of a Transmons freshly constructed with the parameters that
\* instance k holds
FreshHamiltonian(k) ==
    LET o == objs[k]
        f == Transmons_init(<<>>, o.nqubits, Array(heap[o.Ec]), Array(heap[o.EJ]),
                            Array(heap[o.g]), Array(heap[o.ng]), o.nmax)
    IN  hamiltonian(f.heap, f.self)

\* C4: an instance holds the receiver's value for every parameter tune() was
\* not given, the EJ it was given, the symmetrized g it was given, and the
\* constructor's Ec, ng, nmax, nqubits; its hamiltonian() is that of a
\* Transmons freshly constructed with those parameters.
C4_TunedIsFreshlyBuilt ==
    /\ \A k \in DOMAIN objs :
        LET o == objs[k]
            w == Expected(k)
        IN  /\ o.nqubits = w.nqubits
            /\ o.nmax = w.nmax
            /\ heap[o.Ec] = w.Ec
            /\ heap[o.ng] = w.ng
            /\ heap[o.EJ] = w.EJ
            /\ \A i, j \in Range(o.nqubits) :
                   2 * heap[o.g][i][j] = w.gin[i][j] + w.gin[j][i]
    /\ out.op = "hamiltonian" => out.val = FreshHamiltonian(out.self)

\* hamiltonian() was called on a twice-tuned copy that inherited the
\* original's coupling array and holds a replaced EJ
C4_Witness ==
    /\ TwiceTuned
    /\ objs[2].g = objs[1].g
    /\ heap[objs[2].g][1][0] # 0
    /\ heap[objs[2].EJ] # heap[objs[1].EJ]
    /\ out.op = "hamiltonian"
    /\ out.self = 2

\* C5: an in-place write made through one instance never changes what
\* hamiltonian() or apply() returns on the other instance.
C5_NoSharedMutableState ==
    \A p \in DOMAIN poked :
        \A k \in DOMAIN objs \ {poked[p].via} :
            /\ hamiltonian(heap, objs[k]) = poked[p].before[k].H
            /\ apply(heap, objs[k], TestStates(objs[k].shape[1])[1])
                   = poked[p].before[k].A

-----------------------------------------------------------------------------
(* Claims about Regular3DLattice *)

Called == lat.status = "called"
Built == Called /\ lat.self.status = "ok"

\* the coordinates of the box that the condition admits
Admitted ==
    {c \in Box(lat.sizes, lat.r0) : condition_holds(lat.condition, c[1], c[2], c[3])}

\* C6: ndx_map is a bijection between the admitted coordinates of the box
\* and [0, N), coord[ndx_map[c]] = c for every admitted c, and N is the
\* number of admitted coordinates.
C6_IndexMapIsBijection ==
    Built =>
        LET self == lat.self
            N    == self.size
        IN  /\ N = Cardinality(Admitted)
            /\ DOMAIN self.coord = Range(N)
            /\ DOMAIN self.ndx_map = Admitted
            /\ \A c \in Admitted :
                   /\ vertex_index(self, c) \in Range(N)
                   /\ self.coord[vertex_index(self, c)] = c
            /\ \A i \in Range(N) :
                   /\ self.coord[i] \in Admitted
                   /\ vertex_index(self, self.coord[i]) = i

\* a lattice of at least three sites with one point of the box left out,
\* on a box that does not start at the origin
C6_Witness ==
    /\ Built
    /\ lat.condition.kind = "except"
    /\ lat.r0 # <<0, 0, 0>>
    /\ lat.self.size >= 3
    /\ lat.condition.c \in Box(lat.sizes, lat.r0) \ DOMAIN lat.self.ndx_map

LexLess(a, b) ==
    \/ a[1] < b[1]
    \/ a[1] = b[1] /\ a[2] < b[2]
    \/ a[1] = b[1] /\ a[2] = b[2] /\ a[3] < b[3]

\* C7: site indices follow the lexicographic (x, y, z) order, x slowest;
\* with no condition, index((X,Y,Z)) = ((X-X0)*Ly + (Y-Y0))*Lz + (Z-Z0)
\* and N = Lx*Ly*Lz.
C7_LexicographicOrder ==
    Built =>
        LET self == lat.self
            X0 == lat.r0[1]
            Y0 == lat.r0[2]
            Z0 == lat.r0[3]
            Lx == lat.sizes[1]
            Ly == lat.sizes[2]
            Lz == lat.sizes[3]
        IN  /\ \A c1, c2 \in DOMAIN self.ndx_map :
                   LexLess(c1, c2) => vertex_index(self, c1) < vertex_index(self, c2)
            /\ lat.condition.kind = "all" =>
                   /\ self.size = Lx * Ly * Lz
                   /\ \A c \in Box(lat.sizes, lat.r0) :
                          /\ c \in DOMAIN self.ndx_map
                          /\ vertex_index(self, c)
                                 = ((c[1] - X0) * Ly + (c[2] - Y0)) * Lz + (c[3] - Z0)

\* a 2x2x2 lattice without condition, cornered at (-1, 2, 1), in which
\* (0, 2, 2) has index 5
C7_Witness ==
    /\ Built
    /\ lat.condition.kind = "all"
    /\ lat.sizes = <<2, 2, 2>>
    /\ lat.r0 = <<-1, 2, 1>>
    /\ vertex_index(lat.self, <<0, 2, 2>>) = 5

\* C8: a condition that admits no coordinate of the box gives, without
\* error, a lattice with N = 0: empty coord, empty ndx_map, 0x0 matrix.
C8_EmptyLatticeIsValid ==
    (Called /\ Admitted = {}) =>
        /\ lat.self.status = "ok"
        /\ lat.self.size = 0
        /\ lat.self.coord = <<>>
        /\ lat.self.ndx_map = <<>>
        /\ lat.self.H = Zeros(0, 0)

\* the pairs that hopping returns for the site of index i
PairsAt(i) ==
    LET c == lat.self.coord[i]
    IN  hopping_pairs(lat.hopping, c[1], c[2], c[3])

\* the weights of the pairs of site i whose target is the site of index k
WeightsTo(i, k) ==
    LET pairs == PairsAt(i)
    IN  [p \in Range(Len(pairs)) |->
            IF pairs[p + 1][2] = lat.self.coord[k] THEN pairs[p + 1][1] ELSE 0]

\* C9: entry (i, k) of the lattice matrix is the sum of the weights of all
\* pairs returned by hopping(coord[i]) whose target is coord[k]; pairs
\* with the same (row, column) are added together.
C9_EntriesAreSums ==
    Built =>
        \A i, k \in Range(lat.self.size) :
            lat.self.H[i][k] = SumFn(WeightsTo(i, k), Len(PairsAt(i)))

\* a lattice of at least two sites whose rule returns two different
\* nonzero weights for the same target, and the entry holds their sum
C9_Witness ==
    /\ Built
    /\ lat.self.size >= 2
    /\ Len(lat.hopping) = 2
    /\ lat.hopping[1].d = lat.hopping[2].d
    /\ lat.hopping[1].J # lat.hopping[2].J
    /\ \E i, k \in Range(lat.self.size) :
           /\ Cardinality({p \in DOMAIN PairsAt(i) : PairsAt(i)[p][2] = lat.self.coord[k]}) = 2
           /\ lat.self.H[i][k] = lat.hopping[1].J + lat.hopping[2].J

\* no pair of any admitted site has an admitted target
AllPairsDropped ==
    \A c \in Admitted :
        \A p \in DOMAIN hopping_pairs(lat.hopping, c[1], c[2], c[3]) :
            hopping_pairs(lat.hopping, c[1], c[2], c[3])[p][2] \notin Admitted

\* C10: pairs whose target is not admitted are dropped without error, for
\* every rule; when every pair of every site is dropped, or the rule
\* returns empty lists, the lattice is built with an all-zero NxN matrix.
C10_DroppedPairsNeverFail ==
    (Called /\ Admitted # {}) =>
        /\ lat.self.status = "ok"
        /\ AllPairsDropped =>
               /\ lat.self.size = Cardinality(Admitted)
               /\ lat.self.H = Zeros(lat.self.size, lat.self.size)

-----------------------------------------------------------------------------
(* Claims about Lattice1D, SquareLattice, coupling_at and the dimension *)

Abs(x) == IF x < 0 THEN -x ELSE x

\* C11: Lattice1D(L, J, omega) without condition yields the LxL matrix with
\* omega on the diagonal, J on both first off-diagonals and 0 elsewhere;
\* the end sites get no wraparound entry.
C11_ChainIsTridiagonal ==
    (Called /\ lat.class = "Lattice1D" /\ lat.condition.kind = "all") =>
        LET L == lat.args.L
            H == lat.self.H
        IN  /\ lat.self.status = "ok"
            /\ lat.self.size = L
            /\ DOMAIN H = Range(L)
            /\ \A i \in Range(L) :
                   /\ DOMAIN H[i] = Range(L)
                   /\ \A k \in Range(L) :
                          H[i][k] = IF i = k THEN lat.args.omega
                                    ELSE IF Abs(i - k) = 1 THEN lat.args.J
                                    ELSE 0

\* a chain of four sites with J = 2 and omega = -1, whose end sites are not
\* joined
C11_Witness ==
    /\ Built
    /\ lat.class = "Lattice1D"
    /\ lat.condition.kind = "all"
    /\ lat.args = [L |-> 4, J |-> 2, omega |-> -1]
    /\ lat.self.H[1][2] = 2
    /\ lat.self.H[2][1] = 2
    /\ lat.self.H[0][3] = 0
    /\ lat.self.H[3][0] = 0

\* the sum of the off-diagonal entries of row i
OffDiagonalSum(i) ==
    SumFn([k \in Range(lat.self.size) |-> IF k = i THEN 0 ELSE lat.self.H[i][k]],
          lat.self.size)

\* the number of points of the box at distance 1 from c
NeighboursInside(c) ==
    Cardinality({n \in Box(lat.sizes, lat.r0) :
        Abs(n[1] - c[1]) + Abs(n[2] - c[2]) + Abs(n[3] - c[3]) = 1})

\* C12: in a SquareLattice with Jx = Jy = 1, omega = 0 and no condition the
\* off-diagonal entries of each row add up to the number of nearest
\* neighbours of that site inside the lattice (3x3: 2, 3 and 4, in a 9x9
\* matrix).
C12_RowSumsCountNeighbours ==
    (/\ Called
     /\ lat.class = "SquareLattice"
     /\ lat.condition.kind = "all"
     /\ lat.args.Jx = 1
     /\ (lat.args.Jy.kind = "none" \/ lat.args.Jy.v = 1)
     /\ lat.args.omega = 0) =>
        /\ lat.self.status = "ok"
        /\ lat.self.size = lat.sizes[1] * lat.sizes[2]
        /\ DOMAIN lat.self.H = Range(lat.self.size)
        /\ \A i \in Range(lat.self.size) :
               /\ DOMAIN lat.self.H[i] = Range(lat.self.size)
               /\ OffDiagonalSum(i) = NeighboursInside(lat.self.coord[i])

\* the 3x3 lattice: 2 at the corner, 3 on the edge, 4 at the centre
C12_Witness ==
    /\ Built
    /\ lat.class = "SquareLattice"
    /\ lat.condition.kind = "all"
    /\ lat.self.J = <<1, 1>>
    /\ lat.self.omega = 0
    /\ lat.sizes = <<3, 3, 1>>
    /\ lat.self.size = 9
    /\ OffDiagonalSum(0) = 2
    /\ OffDiagonalSum(1) = 3
    /\ OffDiagonalSum(4) = 4

\* the number of nonzero entries of a vector
Nonzeros(v) == Cardinality({i \in DOMAIN v : v[i] # 0})

\* C13 as stated: coupling_at(r, g) raises when r is not admitted; on an
\* admitted r it returns a length-N vector with exactly one nonzero entry,
\* equal to g, at index vertex_index(r).
C13_ExactlyOneNonzeroEntry ==
    out.op = "coupling_at" =>
        IF out.r \notin Admitted
        THEN out.res.status = "Exception"
        ELSE /\ out.res.status = "ok"
             /\ DOMAIN out.res.val = Range(lat.self.size)
             /\ Nonzeros(out.res.val) = 1
             /\ out.res.val[vertex_index(lat.self, out.r)] = out.g

\* C13 amended: coupling_at(r, g) raises when r is not admitted; on an
\* admitted r it returns a length-N vector whose entry at vertex_index(r)
\* is g and whose other entries are 0, so it has exactly one nonzero entry
\* when g is not 0.
C13_CouplingVector ==
    out.op = "coupling_at" =>
        IF out.r \notin Admitted
        THEN out.res.status = "Exception"
        ELSE /\ out.res.status = "ok"
             /\ DOMAIN out.res.val = Range(lat.self.size)
             /\ \A i \in Range(lat.self.size) :
                    out.res.val[i] = IF i = vertex_index(lat.self, out.r) THEN out.g ELSE 0
             /\ out.g # 0 => Nonzeros(out.res.val) = 1

\* coupling_at with g = 3 on the last site of a lattice with a point left out
C13_Witness ==
    /\ out.op = "coupling_at"
    /\ lat.condition.kind = "except"
    /\ out.r \in Admitted
    /\ out.g = 3
    /\ lat.self.size >= 3
    /\ vertex_index(lat.self, out.r) = lat.self.size - 1
    /\ out.res.status = "ok"
    /\ out.res.val[lat.self.size - 1] = 3

\* the number of axes whose extent is greater than 1
LongAxes == Cardinality({a \in 1 .. 3 : lat.sizes[a] > 1})

-----------------------------------------------------------------------------
(* Claims about the lifted operators and the Hamiltonian of Transmons *)

\* digit j of r written in base d with M digits, digit 0 most significant
Digit(r, j, d, M) == (r \div Pow(d, M - j - 1)) % d

\* entry (r, c) of I(d^j) (x) op (x) I(d^(M-j-1))
LiftedEntry(op, j, M, r, c) ==
    LET d == Rows(op)
    IN  IF \A i \in Range(M) \ {j} : Digit(r, i, d, M) = Digit(c, i, d, M)
        THEN op[Digit(r, j, d, M)][Digit(c, j, d, M)]
        ELSE 0

\* C15: for every subsystem j the lifted operator is
\* I(d^j) (x) op (x) I(d^(M-j-1)) with d = 2*nmax+1: it is d^M x d^M, entry
\* (r, c) is op[digit_j(r), digit_j(c)] when all other base-d digits of r
\* and c agree and 0 otherwise; N_j is diagonal with
\* N_j[r,r] = digit_j(r) - nmax.
C15_LiftedOperators ==
    \A k \in DOMAIN objs :
        LET o    == objs[k]
            M    == o.nqubits
            d    == 2 * o.nmax + 1
            full == Pow(d, M)
            Nop  == Evaluated(charge_operator(o.nmax))
            Sop  == Evaluated(josephson_operator(o.nmax))
            dig  == Evaluated([r \in Range(full) |-> [j \in Range(M) |-> Digit(r, j, d, M)]])
        IN  /\ o.shape = <<full, full>>
            /\ \A j \in Range(M) :
                LET Nj == heap[o.N][j]
                    Sj == heap[o.HJJ][j]
                IN  /\ DOMAIN Nj = Range(full)
                    /\ DOMAIN Sj = Range(full)
                    /\ \A r, c \in Range(full) :
                        /\ Nj[r][c] = LiftedEntry(Nop, j, M, r, c)
                        /\ Sj[r][c] = LiftedEntry(Sop, j, M, r, c)
                        /\ Nj[r][c] = IF r = c THEN dig[r][j] - o.nmax ELSE 0

\* two transmons with nmax = 1: at row 1 (digits 0, 1) N_0 holds -1 and N_1
\* holds 0, and the lifted (Sup+Sdo)/2 of qubit 0 joins rows 0 and 3
C15_Witness ==
    /\ objs # <<>>
    /\ objs[1].nqubits = 2
    /\ objs[1].nmax = 1
    /\ heap[objs[1].N][0][1][1] = -1
    /\ heap[objs[1].N][1][1][1] = 0
    /\ 2 * heap[objs[1].HJJ][0][0][3] = Den
    /\ heap[objs[1].HJJ][1][0][3] = 0

\* sum over all ordered pairs i # j of g[i,j] N_i N_j, for instance o
OrderedCouplingSum(o) ==
    LET M    == o.nqubits
        g    == heap[o.g]
        N    == heap[o.N]
        zero == Zeros(o.shape[1], o.shape[2])
        term(i, j) == IF i = j THEN zero ELSE MatScale(g[i][j], MatMul(N[i], N[j]))
    IN  SumMats([k \in Range(M * M) |-> term(k \div M, k % M)], M * M, zero)

\* sum over i of (-EJ_i) HJJ_i, for instance o
JosephsonSum(o) ==
    LET zero == Zeros(o.shape[1], o.shape[2])
    IN  SumMats([i \in Range(o.nqubits) |-> MatScale(-heap[o.EJ][i], heap[o.HJJ][i])],
                o.nqubits, zero)

\* the unordered pairs {i, j} of distinct subsystems with g[i,j] # 0
CoupledSets(o) ==
    {{q[1], q[2]} : q \in {q \in Range(o.nqubits) \X Range(o.nqubits) :
                              q[1] # q[2] /\ heap[o.g][q[1]][q[2]] # 0}}

-----------------------------------------------------------------------------
(* Claims about lowest_eigenvalues, lowest_eigenstates and frequencies *)

\* how often x occurs in the sequence s
Occurrences(s, x) == Cardinality({i \in DOMAIN s : s[i] = x})

NonDecreasing(s) == \A i, j \in DOMAIN s : i < j => s[i] <= s[j]

\* s holds, in non-decreasing order, the k algebraically smallest
\* eigenvalues of H: each value x as often as H has it, as far as k reaches
\* beyond the eigenvalues below x
IsLowest(s, H, k) ==
    /\ DOMAIN s = 1 .. k
    /\ NonDecreasing(s)
    /\ \A x \in Eigenvalues :
        LET below == Cardinality({i \in DOMAIN H : H[i] < x})
            room  == IF k > below THEN k - below ELSE 0
        IN  Occurrences(s, x) = IF Occurrences(H, x) < room THEN Occurrences(H, x) ELSE room

\* C16: lowest_eigenvalues(H, k) and lowest_eigenstates(H, k) return exactly
\* k eigenvalues in non-decreasing order, the k algebraically smallest of
\* H, whatever order the solver returned them in.
C16_LowestInOrder ==
    /\ out.op = "lowest_eigenvalues" => IsLowest(out.val, out.H, out.neig)
    /\ out.op = "lowest_eigenstates" => IsLowest(out.val.lam, out.H, out.neig)

\* three eigenvalues of an operator whose smallest eigenvalue is not the
\* smallest in magnitude and is not the first
C16_Witness ==
    /\ out.op = "lowest_eigenvalues"
    /\ out.H = <<3, 0, -2, 1>>
    /\ out.neig = 3
    /\ out.val = <<-2, 0, 1>>

\* C17: lowest_eigenstates returns k distinct columns, column k being an
\* eigenvector of the eigenvalue at position k, and its eigenvalues are
\* those lowest_eigenvalues returns for the same operator and count.
C17_ColumnsFollowEigenvalues ==
    out.op = "lowest_eigenstates" =>
        LET lam == out.val.lam
            psi == out.val.psi
        IN  /\ DOMAIN lam = 1 .. out.neig
            /\ DOMAIN psi = 1 .. out.neig
            /\ \A a, b \in DOMAIN psi : a # b => psi[a] # psi[b]
            /\ \A k \in DOMAIN psi : out.H[psi[k]] = lam[k]
            /\ \A v \in lowest_eigenvalues(out.H, out.neig) : lam = v

\* three eigenpairs of an operator with a repeated eigenvalue; the columns
\* come in an order that differs from the operator's
C17_Witness ==
    /\ out.op = "lowest_eigenstates"
    /\ out.H = <<3, 0, -2, 0>>
    /\ out.neig = 3
    /\ out.val.lam = <<-2, 0, 0>>
    /\ out.val.psi = <<3, 4, 2>>

\* C18: frequencies(n) returns the differences of the n+1 lowest
\* eigenvalues from the lowest one: a scalar for n = 1, for any other n a
\* sequence of exactly n gaps, non-negative and non-decreasing.
C18_GapsFromGround ==
    out.op = "frequencies" =>
        LET n   == out.n
            lam == CHOOSE s \in [1 .. (n + 1) -> Eigenvalues] : IsLowest(s, out.H, n + 1)
        IN  IF n = 1
            THEN /\ out.val.kind = "scalar"
                 /\ out.val.v = lam[2] - lam[1]
                 /\ out.val.v >= 0
            ELSE /\ out.val.kind = "tuple"
                 /\ DOMAIN out.val.v = 1 .. n
                 /\ \A i \in 1 .. n : out.val.v[i] = lam[i + 1] - lam[1]
                 /\ \A i \in 1 .. n : out.val.v[i] >= 0
                 /\ NonDecreasing(out.val.v)

\* two gaps of an operator with eigenvalues 3, 0, -2, 1
C18_Witness ==
    /\ out.op = "frequencies"
    /\ out.H = <<3, 0, -2, 1>>
    /\ out.n = 2
    /\ out.val = Tuple(<<2, 3>>)

-----------------------------------------------------------------------------
(* Claims about the arguments of Transmons *)

\* x is an array whose length differs from n
LengthMismatch(x, n) == x.kind = "array" /\ Cardinality(DOMAIN x.v) # n

\* C19: constructing a Transmons with an Ec, EJ or ng array whose length
\* differs from nqubits fails, and no object is returned.
C19_MismatchIsDetected ==
    (/\ out.op = "Transmons"
     /\ \/ LengthMismatch(out.Ec, out.nqubits)
        \/ LengthMismatch(out.EJ, out.nqubits)
        \/ LengthMismatch(out.ng, out.nqubits)) =>
        /\ out.status # "ok"
        /\ objs = <<>>

-----------------------------------------------------------------------------
(* Claims about qubit_basis *)

\* the operator of subsystem i of instance o alone, with zero offset and
\* zero coupling: 4 Ec_i n^2 on the diagonal, -EJ_i/2 next to it
Isolated(o, i) ==
    LET d == 2 * o.nmax + 1
    IN  [r \in Range(d) |-> [c \in Range(d) |->
            IF r = c THEN Den * 4 * heap[o.Ec][i] * (r - o.nmax) * (r - o.nmax)
            ELSE IF r - c = 1 \/ c - r = 1 THEN -heap[o.EJ][i] * (Den \div 2)
            ELSE 0]]

\* the two lowest eigenvectors of subsystem i alone, as a basis
TwoLevels(o, i) ==
    [c \in Range(2) |-> <<[T |-> Isolated(o, i), level |-> c]>>]

\* what qubit_basis ought to return: for an index the two lowest
\* eigenvectors of that subsystem alone, as 2 columns of length 2*nmax+1;
\* for None the Kronecker product of these bases in the order 0..M-1, with
\* (2*nmax+1)^M rows and 2^M columns
ExpectedBasis(o, which, val) ==
    LET M == o.nqubits
        d == 2 * o.nmax + 1
    IN  /\ val.status = "ok"
        /\ IF which.kind # "none"
           THEN /\ val.rows = d
                /\ val.cols = TwoLevels(o, which.v)
           ELSE /\ val.rows = Pow(d, M)
                /\ DOMAIN val.cols = Range(Pow(2, M))
                /\ \A c \in Range(Pow(2, M)) :
                       val.cols[c] = [k \in 1 .. M |->
                           TwoLevels(o, k - 1)[Digit(c, k - 1, 2, M)][1]]

\* C21 as stated: qubit_basis(i) returns the two lowest eigenvectors of
\* subsystem i alone (its own Ec and current EJ, zero offset and coupling),
\* 2 columns of length 2*nmax+1; qubit_basis(None) returns the Kronecker
\* product of these bases in subsystem order.
C21_BasisOfIsolatedQubits ==
    out.op = "qubit_basis" => ExpectedBasis(objs[out.self], out.which, out.val)

\* C21 amended: as stated, for nmax >= 1.
C21_BasisWhenTwoLevelsExist ==
    (out.op = "qubit_basis" /\ objs[out.self].nmax >= 1) =>
        ExpectedBasis(objs[out.self], out.which, out.val)

\* qubit_basis(None) on a tuned copy of two transmons with nmax = 1, whose
\* offsets and couplings are not zero and whose EJ was replaced
C21_Witness ==
    /\ out.op = "qubit_basis"
    /\ out.self = 2
    /\ out.which.kind = "none"
    /\ objs[2].nqubits = 2
    /\ objs[2].nmax = 1
    /\ heap[objs[2].ng][0] # 0
    /\ heap[objs[2].g][1][0] # 0
    /\ heap[objs[2].EJ] # heap[objs[1].EJ]
    /\ out.val.status = "ok"
    /\ out.val.rows = 9
    /\ DOMAIN out.val.cols = Range(4)

-----------------------------------------------------------------------------
(* Claims about the built-in geometries *)

\* C22: the matrix of a Lattice1D, SquareLattice, CubicLattice, BCCLattice
\* or RhombusLattice is symmetric: entry (i, k) equals entry (k, i) for
\* all sites i, k.
C22_BuiltinsAreSymmetric ==
    Built =>
        \A i, k \in Range(lat.self.size) : lat.self.H[i][k] = lat.self.H[k][i]

\* a CubicLattice of eight sites less one, with three different hopping
\* amplitudes, whose first two sites are joined along Z
C22_Witness ==
    /\ Built
    /\ lat.class = "CubicLattice"
    /\ lat.condition.kind = "except"
    /\ lat.self.size = 7
    /\ lat.self.J = <<2, 1, -1>>
    /\ lat.self.H[0][1] = -1
    /\ lat.self.H[1][0] = -1

\* the points (X, Y, Z0) with |X-X0| + |Y-Y0| <= L
Rhombus(L, r0) ==
    {c \in Box(<<2 * L + 3, 2 * L + 3, 1>>, <<r0[1] - L - 1, r0[2] - L - 1, r0[3]>>) :
        Abs(c[1] - r0[1]) + Abs(c[2] - r0[2]) <= L}

\* C23: RhombusLattice(L, r0=(X0,Y0,Z0)) admits exactly the sites
\* (X, Y, Z0) with |X-X0| + |Y-Y0| <= L: it has 2*L*L + 2*L + 1 sites, r0
\* is one of them, and Xmin = X0-L, Xmax = X0+L, Ymin = Y0-L, Ymax = Y0+L.
C23_RhombusSites ==
    (Called /\ lat.class = "RhombusLattice") =>
        LET L  == lat.args.L
            r0 == lat.args.r0
            self == lat.self
        IN  /\ self.status = "ok"
            /\ DOMAIN self.ndx_map = Rhombus(L, r0)
            /\ {self.coord[i] : i \in DOMAIN self.coord} = Rhombus(L, r0)
            /\ self.size = 2 * L * L + 2 * L + 1
            /\ r0 \in DOMAIN self.ndx_map
            /\ self.Xmin = r0[1] - L
            /\ self.Xmax = r0[1] + L
            /\ self.Ymin = r0[2] - L
            /\ self.Ymax = r0[2] + L

\* the rhombus with L = 2 around (-1, 2, 1): 13 sites, the centre at index 6
C23_Witness ==
    /\ Built
    /\ lat.class = "RhombusLattice"
    /\ lat.args.L = 2
    /\ lat.args.r0 = <<-1, 2, 1>>
    /\ lat.self.size = 13
    /\ vertex_index(lat.self, <<-1, 2, 1>>) = 6
    /\ lat.self.Xmin = -3
    /\ lat.self.Ymax = 4

=============================================================================
